---- MODULE Spec2Model ----
(***************************************************************************)
(* tyr: a stack based virtual machine.  The model covers the parser        *)
(* (src/src/parser.rs), the symbol table (src/src/sym_tab.rs), the program *)
(* loader (src/src/util.rs) and the execution engine (src/src/vm.rs).      *)
(*                                                                         *)
(* A source line is a sequence of one-character strings, a token is a      *)
(* sequence of characters, an OpCode is a record whose field op is the     *)
(* variant's name.  Addresses and the stack pointer are usize in the       *)
(* source and integers here; every place where the source would compute a  *)
(* negative usize is modelled as the panic both builds produce there.      *)
(***************************************************************************)
EXTENDS Integers, Sequences, FiniteSets, TLC

(***************************************************************************)
(* Bounds of the model.                                                    *)
(***************************************************************************)
\* lines read from one program file (Spec)
MaxLines == 4
\* instructions fetched in one run (Spec, SpecArith)
MaxSteps == 120
\* calls of parse_line made on one Parser (SpecParser)
MaxCalls == 3
\* lines of the three-instruction arithmetic programs (SpecArith)
MaxArithLines == 3
\* lines of a program made of LOADC only (SpecPush)
MaxPushLines == 52
\* largest magnitude of a stack value the model follows
MaxMemLines == 3
BitWidth == 16
MaxAbs == 100000

\* src/src/vm.rs:6
STACK_SIZE == 50

(***************************************************************************)
(* Text: lines, tokens, str::split(' ') and str::parse::<i64>().           *)
(***************************************************************************)
SPACE == " "
COLON == ":"

T_PRINT == <<"P", "R", "I", "N", "T">>
T_HALT == <<"H", "A", "L", "T">>
T_NOP == <<"N", "O", "P">>
T_ADD == <<"A", "D", "D">>
T_SUB == <<"S", "U", "B">>
T_MUL == <<"M", "U", "L">>
T_DIV == <<"D", "I", "V">>
T_MOD == <<"M", "O", "D">>
T_AND == <<"A", "N", "D">>
T_OR == <<"O", "R">>
T_NEG == <<"N", "E", "G">>
T_LOAD == <<"L", "O", "A", "D">>
T_STORE == <<"S", "T", "O", "R", "E">>
T_LOADV == <<"L", "O", "A", "D", "V">>
T_STOREV == <<"S", "T", "O", "R", "E", "V">>
T_JMP == <<"J", "M", "P">>
T_JMPZ == <<"J", "M", "P", "Z">>
T_LOADC == <<"L", "O", "A", "D", "C">>
T_JMPI == <<"J", "M", "P", "I">>
T_DUP == <<"D", "U", "P">>

\* a line of two tokens separated by one space
Line2(t, a) == t \o <<SPACE>> \o a

RECURSIVE SplitFrom(_, _, _)
SplitFrom(s, i, cur) ==
    IF i > Len(s) THEN <<cur>>
    ELSE IF s[i] = SPACE THEN <<cur>> \o SplitFrom(s, i + 1, <<>>)
    ELSE SplitFrom(s, i + 1, Append(cur, s[i]))

\* line.split(' ').collect(): the empty line gives one empty token
Split(s) == SplitFrom(s, 1, <<>>)

IsDigit(c) == c \in {"0", "1", "2", "3", "4", "5", "6", "7", "8", "9"}

DigitVal(c) ==
    CASE c = "0" -> 0 [] c = "1" -> 1 [] c = "2" -> 2 [] c = "3" -> 3
      [] c = "4" -> 4 [] c = "5" -> 5 [] c = "6" -> 6 [] c = "7" -> 7
      [] c = "8" -> 8 [] c = "9" -> 9

RECURSIVE DigitsVal(_, _)
DigitsVal(ds, n) ==
    IF n = 0 THEN 0 ELSE 10 * DigitsVal(ds, n - 1) + DigitVal(ds[n])

\* str::parse::<i64>(): an optional sign, then one or more decimal digits.
\* The operand tokens of the model have one or two digits, far below the
\* 19 digits at which i64 overflows.
\* parse::<i64>() that takes digits only, no sign
ParseI64_no_sign(tok) ==
    IF Len(tok) = 0 \/ \E i \in 1..Len(tok) : ~IsDigit(tok[i])
    THEN [ok |-> FALSE, val |-> 0]
    ELSE [ok |-> TRUE, val |-> DigitsVal(tok, Len(tok))]

ParseI64(tok) ==
    LET signed == Len(tok) > 0 /\ tok[1] \in {"-", "+"}
        ds == IF signed THEN Tail(tok) ELSE tok
    IN  IF Len(ds) = 0 \/ \E i \in 1..Len(ds) : ~IsDigit(ds[i])
        THEN [ok |-> FALSE, val |-> 0]
        ELSE [ok |-> TRUE,
              val |-> IF signed /\ tok[1] = "-"
                      THEN 0 - DigitsVal(ds, Len(ds))
                      ELSE DigitsVal(ds, Len(ds))]

(***************************************************************************)
(* OpCode, OpError and the results of parse_line.                          *)
(***************************************************************************)
Op0(name) == [op |-> name]
OpInt(name, v) == [op |-> name, val |-> v]
OpStr(name, s) == [op |-> name, str |-> s]
OpLabel(s, a) == [op |-> "LABEL", str |-> s, addr |-> a]

Ok(o) == [tag |-> "Ok", op |-> o]
Err(k, m) == [tag |-> "Err", err |-> k, msg |-> m]
Panicked(msg) == [tag |-> "panic", msg |-> msg]
NoResult == [tag |-> "none"]

(***************************************************************************)
(* SymbolTable: a function from label names to addresses.                  *)
(***************************************************************************)
SymbolTable_new == [k \in {} |-> 0]

insert(table, key, val) ==
    [k \in DOMAIN table \cup {key} |-> IF k = key THEN val ELSE table[k]]

is_duplicate(table, key) == key \in DOMAIN table

(***************************************************************************)
(* Parser.  A parser state is [line, sym_tab]; every operation returns the *)
(* parser state it leaves and the value it returns (or the panic).         *)
(***************************************************************************)
Parser_new(table) == [line |-> 1, sym_tab |-> table]

\* label.split_at(label.len()-1).0
StripLast(label) == SubSeq(label, 1, Len(label) - 1)

\* parse_label without the test of the trailing colon
parse_label_no_colon_check(p, op_vec) ==
    LET label == op_vec[1]
    IN  IF Len(label) = 0
        THEN [sym_tab |-> p.sym_tab, result |-> Panicked("parse_label: empty token")]
        ELSE IF is_duplicate(p.sym_tab, label)
        THEN [sym_tab |-> p.sym_tab, result |-> Err("Label", "duplicate label")]
        ELSE [sym_tab |-> insert(p.sym_tab, StripLast(label), p.line),
              result |-> Ok(OpLabel(StripLast(label), p.line))]

parse_label(p, op_vec) ==
    LET label == op_vec[1]
    IN  IF Len(label) = 0
        \* label.len() - 1 underflows: the debug build panics on the
        \* subtraction, the release build on unwrap() of nth(usize::MAX)
        THEN [sym_tab |-> p.sym_tab, result |-> Panicked("parse_label: empty token")]
        ELSE IF label[Len(label)] # COLON
        THEN [sym_tab |-> p.sym_tab, result |-> Err("Label", "illegal label name")]
        ELSE IF is_duplicate(p.sym_tab, label)
        THEN [sym_tab |-> p.sym_tab, result |-> Err("Label", "duplicate label")]
        ELSE [sym_tab |-> insert(p.sym_tab, StripLast(label), p.line),
              result |-> Ok(OpLabel(StripLast(label), p.line))]

extract_arg(op_vec) ==
    IF Len(op_vec) < 2
    THEN Panicked("Missing arguments for load operation")
    ELSE LET a == ParseI64(op_vec[2])
         IN  IF a.ok THEN [tag |-> "Ok", val |-> a.val]
             ELSE Err("Parse", "invalid integer")

\* PRINT, JMP and JMPZ index op_vec[1] without a length check
StrArg(name, op_vec) ==
    IF Len(op_vec) < 2 THEN Panicked("index out of bounds: op_vec[1]")
    ELSE Ok(OpStr(name, op_vec[2]))

\* LOADV, STOREV, LOADC, JMPI: try!(self.extract_arg(..)), then Ok(OpCode(arg))
IntArg(name, op_vec) ==
    LET a == extract_arg(op_vec)
    IN  IF a.tag = "Ok" THEN Ok(OpInt(name, a.val)) ELSE a

\* the match of parse_line: the value of `result`, the symbol table it
\* leaves, and whether try! returned from parse_line before `result` was bound
ParseMatch(p, op_vec) ==
    LET t == op_vec[1]
        keep(r) == [sym_tab |-> p.sym_tab, result |-> r, early |-> FALSE]
        try(r) == [sym_tab |-> p.sym_tab, result |-> r, early |-> r.tag = "Err"]
    IN  CASE t = T_PRINT -> keep(StrArg("PRINT", op_vec))
          [] t = T_HALT -> keep(Ok(Op0("HALT")))
          [] t = T_NOP -> keep(Ok(Op0("NOP")))
          [] t = T_ADD -> keep(Ok(Op0("ADD")))
          [] t = T_SUB -> keep(Ok(Op0("SUB")))
          [] t = T_MUL -> keep(Ok(Op0("MUL")))
          [] t = T_DIV -> keep(Ok(Op0("DIV")))
          [] t = T_MOD -> keep(Ok(Op0("MOD")))
          [] t = T_AND -> keep(Ok(Op0("AND")))
          [] t = T_OR -> keep(Ok(Op0("OR")))
          [] t = T_NEG -> keep(Ok(Op0("NEG")))
          [] t = T_LOAD -> keep(Ok(Op0("LOAD")))
          [] t = T_STORE -> keep(Ok(Op0("STORE")))
          [] t = T_LOADV -> try(IntArg("LOADV", op_vec))
          [] t = T_STOREV -> try(IntArg("STOREV", op_vec))
          [] t = T_JMP -> keep(StrArg("JMP", op_vec))
          [] t = T_JMPZ -> keep(StrArg("JMPZ", op_vec))
          [] t = T_LOADC -> try(IntArg("LOADC", op_vec))
          [] t = T_JMPI -> try(IntArg("JMPI", op_vec))
          [] t = T_DUP -> keep(Ok(Op0("DUP")))
          [] OTHER -> LET l == parse_label(p, op_vec)
                      IN  [sym_tab |-> l.sym_tab, result |-> l.result, early |-> FALSE]

\* self.line = self.line + 1, reached only when the match bound `result`
NextLine(p, m) ==
    IF m.early \/ m.result.tag = "panic" THEN p.line ELSE p.line + 1

parse_line(p, ln) ==
    LET op_vec == Split(ln)
    IN  IF Len(op_vec) = 0
        THEN [line |-> p.line, sym_tab |-> p.sym_tab, result |-> Ok(Op0("NOP"))]
        ELSE LET m == ParseMatch(p, op_vec)
             IN  [line |-> NextLine(p, m), sym_tab |-> m.sym_tab, result |-> m.result]

(***************************************************************************)
(* Integer operations of i64 as the engine uses them.  The values the      *)
(* model follows stay within MaxAbs, so no operation overflows 64 bits.    *)
(***************************************************************************)
Abs(a) == IF a < 0 THEN 0 - a ELSE a

\* Rust's `/` on i64: the quotient truncated toward zero
TruncDiv(a, b) ==
    IF (a < 0) = (b < 0) THEN Abs(a) \div Abs(b) ELSE 0 - (Abs(a) \div Abs(b))

\* Rust's `%` on i64: the remainder of the truncated division
TruncRem(a, b) == IF a < 0 THEN 0 - (Abs(a) % Abs(b)) ELSE a % Abs(b)

\* Rust's `&` and `|` on i64 (two's complement, bit by bit)
RECURSIVE BitAnd(_, _)
BitAnd(a, b) ==
    IF a = 0 \/ b = 0 THEN 0
    ELSE IF a = -1 THEN b
    ELSE IF b = -1 THEN a
    ELSE 2 * BitAnd(a \div 2, b \div 2) + (a % 2) * (b % 2)

RECURSIVE BitOr(_, _)
BitOr(a, b) ==
    IF a = -1 \/ b = -1 THEN -1
    ELSE IF a = 0 THEN b
    ELSE IF b = 0 THEN a
    ELSE 2 * BitOr(a \div 2, b \div 2)
         + (IF a % 2 = 1 \/ b % 2 = 1 THEN 1 ELSE 0)

(***************************************************************************)
(* Vm.  A machine state is [pc, sp, stack, out, fault, exit]: fault is the *)
(* panic that ended the run ("none" while there is none), exit is TRUE     *)
(* once process::exit(0) was called.  A panic keeps the fields as they     *)
(* were when it was raised.                                                *)
(***************************************************************************)
Slots == 0..(STACK_SIZE - 1)

Vm_new ==
    [pc |-> 0, sp |-> 0, stack |-> [i \in Slots |-> 0], out |-> <<>>,
     fault |-> "none", exit |-> FALSE]

panic(m, msg) == [m EXCEPT !.fault = msg]

\* no panic so far: the rest of the function body runs
Live(m) == m.fault = "none"

\* self.stack[i] = v, with the bounds check of array indexing
StackSet(m, i, v) ==
    IF i \notin Slots THEN panic(m, "index out of bounds")
    ELSE [m EXCEPT !.stack[i] = v]

\* self.sp - 1 with self.sp == 0: the debug build panics on the
\* subtraction, the release build on the index usize::MAX
SpMinusOnePanic == "sp - 1 below zero"

\* increment_sp testing the bound after the increment
increment_sp_check_after(m) ==
    IF m.sp + 1 = STACK_SIZE
    THEN panic([m EXCEPT !.sp = m.sp + 1], "tyr: Stack overflow")
    ELSE [m EXCEPT !.sp = m.sp + 1]

increment_sp(m) ==
    IF m.sp = STACK_SIZE THEN panic(m, "tyr: Stack overflow")
    ELSE [m EXCEPT !.sp = m.sp + 1]

\* decrement_sp without its bound check
decrement_sp_unchecked(m) == [m EXCEPT !.sp = m.sp - 1]

decrement_sp(m) ==
    IF m.sp = 0 THEN panic(m, "tyr: Stack underflow")
    ELSE [m EXCEPT !.sp = m.sp - 1]

\* loadc writing the slot before it moves sp
loadc_write_first(m, value) ==
    LET m1 == StackSet(m, m.sp, value)
    IN  IF Live(m1) THEN increment_sp(m1) ELSE m1

loadc(m, value) ==
    LET m1 == increment_sp(m)
    IN  IF Live(m1) THEN StackSet(m1, m1.sp, value) ELSE m1

\* add zeroing the slot it pops
add_clears_popped(m) ==
    IF m.sp = 0 THEN panic(m, SpMinusOnePanic)
    ELSE LET m1 == StackSet(m, m.sp - 1, m.stack[m.sp] + m.stack[m.sp - 1])
             m2 == IF Live(m1) THEN StackSet(m1, m.sp, 0) ELSE m1
         IN  IF Live(m2) THEN decrement_sp(m2) ELSE m2

add(m) ==
    IF m.sp = 0 THEN panic(m, SpMinusOnePanic)
    ELSE LET m1 == StackSet(m, m.sp - 1, m.stack[m.sp] + m.stack[m.sp - 1])
         IN  IF Live(m1) THEN decrement_sp(m1) ELSE m1

mul(m) ==
    IF m.sp = 0 THEN panic(m, SpMinusOnePanic)
    ELSE LET m1 == StackSet(m, m.sp - 1, m.stack[m.sp] * m.stack[m.sp - 1])
         IN  IF Live(m1) THEN decrement_sp(m1) ELSE m1

\* sub with the operands in push order: below - top
sub_swapped(m) ==
    IF m.sp = 0 THEN panic(m, SpMinusOnePanic)
    ELSE LET m1 == StackSet(m, m.sp - 1, m.stack[m.sp - 1] - m.stack[m.sp])
         IN  IF Live(m1) THEN decrement_sp(m1) ELSE m1

sub(m) ==
    IF m.sp = 0 THEN panic(m, SpMinusOnePanic)
    ELSE LET m1 == StackSet(m, m.sp - 1, m.stack[m.sp] - m.stack[m.sp - 1])
         IN  IF Live(m1) THEN decrement_sp(m1) ELSE m1

\* a division that yields 0 for a zero divisor
div_zero_is_zero(m) ==
    IF m.sp = 0 THEN panic(m, SpMinusOnePanic)
    ELSE LET q == IF m.stack[m.sp - 1] = 0 THEN 0
                  ELSE TruncDiv(m.stack[m.sp], m.stack[m.sp - 1])
             m1 == StackSet(m, m.sp - 1, q)
         IN  IF Live(m1) THEN decrement_sp(m1) ELSE m1

div(m) ==
    IF m.sp = 0 THEN panic(m, SpMinusOnePanic)
    ELSE IF m.stack[m.sp - 1] = 0 THEN panic(m, "attempt to divide by zero")
    ELSE LET m1 == StackSet(m, m.sp - 1, TruncDiv(m.stack[m.sp], m.stack[m.sp - 1]))
         IN  IF Live(m1) THEN decrement_sp(m1) ELSE m1

modq(m) ==
    IF m.sp = 0 THEN panic(m, SpMinusOnePanic)
    ELSE IF m.stack[m.sp - 1] = 0
    THEN panic(m, "attempt to calculate the remainder with a divisor of zero")
    ELSE LET m1 == StackSet(m, m.sp - 1, TruncRem(m.stack[m.sp], m.stack[m.sp - 1]))
         IN  IF Live(m1) THEN decrement_sp(m1) ELSE m1

and(m) ==
    IF m.sp = 0 THEN panic(m, SpMinusOnePanic)
    ELSE LET m1 == StackSet(m, m.sp - 1, BitAnd(m.stack[m.sp], m.stack[m.sp - 1]))
         IN  IF Live(m1) THEN decrement_sp(m1) ELSE m1

or(m) ==
    IF m.sp = 0 THEN panic(m, SpMinusOnePanic)
    ELSE LET m1 == StackSet(m, m.sp - 1, BitOr(m.stack[m.sp], m.stack[m.sp - 1]))
         IN  IF Live(m1) THEN decrement_sp(m1) ELSE m1

\* a negation that only ever makes the top non-negative
neg_abs(m) == StackSet(m, m.sp, Abs(m.stack[m.sp]))

neg(m) == StackSet(m, m.sp, 0 - m.stack[m.sp])

\* a conversion that drops the sign instead of refusing it
maybe_i64_to_usize_abs(num) == Abs(num)

\* Some(num as usize), or None: the model's None is -1
maybe_i64_to_usize(num) == IF num < 0 THEN -1 ELSE num

load(m) ==
    LET load_loc == maybe_i64_to_usize(m.stack[m.sp])
    IN  IF load_loc = -1 THEN panic(m, "tyr: Attempted to load an illegal value.")
        ELSE IF load_loc \notin Slots THEN panic(m, "index out of bounds")
        ELSE StackSet(m, m.sp, m.stack[load_loc])

\* loadv reading the slot val without pushing val first
loadv_no_push(m, val) ==
    IF val \notin Slots THEN panic(m, "tyr: Attempted to load an illegal value.")
    ELSE LET m1 == increment_sp(m)
         IN  IF Live(m1) THEN StackSet(m1, m1.sp, m.stack[val]) ELSE m1

loadv(m, val) ==
    LET m1 == loadc(m, val)
    IN  IF Live(m1) THEN load(m1) ELSE m1

\* store writing the slot before it validates the address
store_from_top(m) ==
    LET store_loc == maybe_i64_to_usize(m.stack[m.sp])
    IN  IF m.sp = 0 THEN panic(m, SpMinusOnePanic)
        ELSE IF store_loc = -1
        THEN panic(StackSet(m, m.sp - 1, m.stack[m.sp]),
                   "tyr: Attempted to store an illegal value.")
        ELSE LET m1 == StackSet(m, store_loc, m.stack[m.sp])
             IN  IF Live(m1) THEN decrement_sp(m1) ELSE m1

store(m) ==
    LET store_loc == maybe_i64_to_usize(m.stack[m.sp])
    IN  IF store_loc = -1 THEN panic(m, "tyr: Attempted to store an illegal value.")
        ELSE IF m.sp = 0 THEN panic(m, SpMinusOnePanic)
        ELSE LET m1 == StackSet(m, store_loc, m.stack[m.sp - 1])
             IN  IF Live(m1) THEN decrement_sp(m1) ELSE m1

storev(m, val) ==
    LET m1 == loadc(m, val)
    IN  IF Live(m1) THEN store(m1) ELSE m1

\* self.sym_tab.get(&loc)
get(table, key) == IF key \in DOMAIN table THEN table[key] ELSE -1

\* a jump that does nothing when the label is unknown
jmp_silent(m, loc, table) ==
    LET new_pc == get(table, loc)
    IN  IF new_pc = -1 THEN m ELSE [m EXCEPT !.pc = new_pc]

jmp(m, loc, table) ==
    LET new_pc == get(table, loc)
    IN  IF new_pc = -1 THEN panic(m, "tyr: Attempted to jump to illegal location")
        ELSE [m EXCEPT !.pc = new_pc]

\* jmpz resolving the label before it tests the top of the stack
jmpz_lookup_first(m, loc, table) ==
    LET m1 == jmp(m, loc, table)
    IN  IF ~Live(m1) THEN m1
        ELSE IF m.stack[m.sp] = 0 THEN decrement_sp(m1)
        ELSE decrement_sp(m)

jmpz(m, loc, table) ==
    IF m.stack[m.sp] = 0
    THEN LET m1 == jmp(m, loc, table)
         IN  IF Live(m1) THEN decrement_sp(m1) ELSE m1
    ELSE decrement_sp(m)

jmpi(m, offset) ==
    LET jmp_addr == maybe_i64_to_usize(m.stack[m.sp] + offset)
    IN  IF jmp_addr = -1
        THEN panic(m, "tyr: Attempted to calculate an illegal jump offset")
        ELSE decrement_sp([m EXCEPT !.pc = jmp_addr])

execute(m, instr, table) ==
    CASE instr.op = "LOADC" -> loadc(m, instr.val)
      [] instr.op = "ADD" -> add(m)
      [] instr.op = "SUB" -> sub(m)
      [] instr.op = "MUL" -> mul(m)
      [] instr.op = "DIV" -> div(m)
      [] instr.op = "MOD" -> modq(m)
      [] instr.op = "AND" -> and(m)
      [] instr.op = "OR" -> or(m)
      [] instr.op = "NEG" -> neg(m)
      [] instr.op = "HALT" -> [m EXCEPT !.exit = TRUE]
      [] instr.op = "LOAD" -> load(m)
      [] instr.op = "STORE" -> store(m)
      [] instr.op = "JMP" -> jmp(m, instr.str, table)
      [] instr.op = "JMPZ" -> jmpz(m, instr.str, table)
      [] instr.op = "JMPI" -> jmpi(m, instr.val)
      [] instr.op = "PRINT" -> [m EXCEPT !.out = Append(m.out, instr.str)]
      [] instr.op = "LOADV" -> loadv(m, instr.val)
      [] instr.op = "STOREV" -> storev(m, instr.val)
      [] instr.op = "LABEL" -> m
      [] instr.op = "NOP" -> m

(***************************************************************************)
(* State.                                                                  *)
(***************************************************************************)
VARIABLES
    line,          \* Parser.line
    sym_tab,       \* SymbolTable.table
    input,         \* the line handed to the latest call of parse_line
    result,        \* what the latest call of parse_line returned
    calls,         \* calls of parse_line made so far
    instructions,  \* the Vec<OpCode> read_file builds; Vm.prog once running
    pc,            \* Vm.pc
    sp,            \* Vm.sp
    stack,         \* Vm.stack
    out,           \* what println! has written
    status,        \* "loading", "load_failed", "running", "completed",
                   \* "halted" or "faulted"
    fault,         \* the panic that ended the run, "none" if none
    steps          \* instructions fetched by Vm::run so far

vars ==
    <<line, sym_tab, input, result, calls, instructions, pc, sp, stack, out,
      status, fault, steps>>

parserVars == <<line, sym_tab, input, result, calls>>
vmVars == <<pc, sp, stack, out, fault, steps>>

\* SymbolTable::new(), Parser::new(&mut sym_tab), and a machine not yet built
Init ==
    /\ line = Parser_new(SymbolTable_new).line
    /\ sym_tab = Parser_new(SymbolTable_new).sym_tab
    /\ input = <<>>
    /\ result = NoResult
    /\ calls = 0
    /\ instructions = <<>>
    /\ pc = Vm_new.pc
    /\ sp = Vm_new.sp
    /\ stack = Vm_new.stack
    /\ out = Vm_new.out
    /\ status = "loading"
    /\ fault = Vm_new.fault
    /\ steps = 0

Parser == [line |-> line, sym_tab |-> sym_tab]
Machine ==
    [pc |-> pc, sp |-> sp, stack |-> stack, out |-> out, fault |-> "none",
     exit |-> FALSE]

\* the instruction at program address a (Vec indices start at 0)
Fetch(a) == instructions[a + 1]

(***************************************************************************)
(* Operations.                                                             *)
(***************************************************************************)
\* one call parser.parse_line(&ln) made directly on a Parser, as the unit
\* tests of parser.rs make it; after a panic the Parser is gone
CallParseLine(ln) ==
    /\ status = "loading"
    /\ result.tag # "panic"
    /\ calls < MaxCalls
    /\ LET r == parse_line(Parser, ln)
       IN  /\ line' = r.line
           /\ sym_tab' = r.sym_tab
           /\ result' = r.result
    /\ input' = ln
    /\ calls' = calls + 1
    /\ UNCHANGED <<instructions, status>>
    /\ UNCHANGED vmVars

\* a loop that drops a line parse_line rejects and goes on to the next one
ReadLine_skip_errors(ln, n) ==
    /\ status = "loading"
    /\ Len(instructions) < n
    /\ LET r == parse_line(Parser, ln)
       IN  /\ line' = r.line
           /\ sym_tab' = r.sym_tab
           /\ result' = r.result
           /\ instructions' = IF r.result.tag = "Ok"
                              THEN Append(instructions, r.result.op)
                              ELSE instructions
           /\ status' = IF r.result.tag = "panic" THEN "load_failed"
                         ELSE "loading"
           /\ fault' = IF r.result.tag = "panic" THEN r.result.msg ELSE fault
    /\ input' = ln
    /\ calls' = calls + 1
    /\ UNCHANGED <<pc, sp, stack, out, steps>>

\* one iteration of the loop of read_file over a file of at most n lines:
\* parse the line, push the OpCode, panic on Err (or with parse_line)
ReadLine(ln, n) ==
    /\ status = "loading"
    /\ Len(instructions) < n
    /\ LET r == parse_line(Parser, ln)
       IN  /\ line' = r.line
           /\ sym_tab' = r.sym_tab
           /\ result' = r.result
           /\ IF r.result.tag = "Ok"
              THEN /\ instructions' = Append(instructions, r.result.op)
                   /\ status' = "loading"
                   /\ fault' = fault
              ELSE /\ instructions' = instructions
                   /\ status' = "load_failed"
                   /\ fault' = IF r.result.tag = "Err" THEN r.result.err
                                ELSE r.result.msg
    /\ input' = ln
    /\ calls' = calls + 1
    /\ UNCHANGED <<pc, sp, stack, out, steps>>

\* read_file returns at the end of the file; Vm::new(&prog, &sym_tab); run()
StartRun ==
    /\ status = "loading"
    /\ status' = "running"
    /\ pc' = Vm_new.pc
    /\ sp' = Vm_new.sp
    /\ stack' = Vm_new.stack
    /\ UNCHANGED <<instructions, out, fault, steps>>
    /\ UNCHANGED parserVars

\* a loop that stops one instruction early
Break_before_last ==
    /\ status = "running"
    /\ pc + 1 >= Len(instructions)
    /\ status' = "completed"
    /\ UNCHANGED <<instructions>>
    /\ UNCHANGED parserVars
    /\ UNCHANGED vmVars

\* Vm::run: `if self.pc >= self.prog.len() { break; }`
Break ==
    /\ status = "running"
    /\ pc >= Len(instructions)
    /\ status' = "completed"
    /\ UNCHANGED <<instructions>>
    /\ UNCHANGED parserVars
    /\ UNCHANGED vmVars

\* the machine after one more iteration of the loop of Vm::run:
\* execute(curr_instr), then pc = pc + 1 unless the process has ended
\* an iteration in which HALT returns instead of ending the process
RunInstr_halt_returns(m, instr, table) ==
    LET m1 == execute(m, instr, table)
    IN  IF m1.fault # "none" THEN m1
        ELSE [m1 EXCEPT !.pc = m1.pc + 1, !.exit = FALSE]

\* an iteration that leaves pc to the instruction
RunInstr_no_increment(m, instr, table) == execute(m, instr, table)

RunInstr(m, instr, table) ==
    LET m1 == execute(m, instr, table)
    IN  IF m1.fault # "none" \/ m1.exit THEN m1
        ELSE [m1 EXCEPT !.pc = m1.pc + 1]

\* `let ref curr_instr = self.prog[self.pc];` and the rest of the iteration
RunStep(m, table) == RunInstr(m, Fetch(m.pc), table)

InModel(m) == \A i \in Slots : Abs(m.stack[i]) <= MaxAbs

\* an iteration of the loop that goes on to the next one after a panic
Execute_ignore_fault ==
    /\ status = "running"
    /\ pc < Len(instructions)
    /\ steps < MaxSteps
    /\ LET m == RunStep(Machine, sym_tab)
       IN  /\ InModel(m)
           /\ pc' = IF m.fault # "none" THEN m.pc + 1 ELSE m.pc
           /\ sp' = m.sp
           /\ stack' = m.stack
           /\ out' = m.out
           /\ fault' = m.fault
           /\ status' = IF m.exit THEN "halted" ELSE "running"
    /\ steps' = steps + 1
    /\ UNCHANGED <<instructions>>
    /\ UNCHANGED parserVars

Execute ==
    /\ status = "running"
    /\ pc < Len(instructions)
    /\ steps < MaxSteps
    /\ LET m == RunStep(Machine, sym_tab)
       IN  /\ InModel(m)
           /\ pc' = m.pc
           /\ sp' = m.sp
           /\ stack' = m.stack
           /\ out' = m.out
           /\ fault' = m.fault
           /\ status' = IF m.fault # "none" THEN "faulted"
                         ELSE IF m.exit THEN "halted"
                         ELSE "running"
    /\ steps' = steps + 1
    /\ UNCHANGED <<instructions>>
    /\ UNCHANGED parserVars

(***************************************************************************)
(* Inputs and specifications.                                              *)
(***************************************************************************)
LabelA == <<"a", COLON>>
NameA == <<"a">>
NameB == <<"b">>

\* Spec: programs with labels, jumps, pushes, a pop, output and a bad line
Lines ==
    { LabelA, Line2(T_JMP, NameA), Line2(T_JMPZ, NameA), Line2(T_JMPZ, NameB),
      Line2(T_LOADC, <<"0">>), Line2(T_LOADC, <<"1">>), T_ADD, T_NOP, T_HALT,
      Line2(T_PRINT, <<"x">>), Line2(T_LOADC, <<"h">>) }

\* SpecArith: two constants and an arithmetic instruction
ArithOperands ==
    { <<"-", "7">>, <<"-", "2">>, <<"-", "1">>, <<"0">>, <<"1">>, <<"2">>,
      <<"3">>, <<"7">> }
ArithLines ==
    { Line2(T_LOADC, v) : v \in ArithOperands }
        \cup { T_ADD, T_SUB, T_MUL, T_DIV, T_MOD }

\* SpecPush: nothing but pushes
PushLines == { Line2(T_LOADC, <<"1">>) }

\* SpecMem: constants, addresses in and out of the stack, loads and stores
MemOperands == { <<"-", "2">>, <<"0">>, <<"1">>, <<"3">>, <<"7">>, <<"5", "0">> }
VarOperands == { <<"-", "2">>, <<"0">>, <<"1">>, <<"5", "0">> }
MemLines ==
    { Line2(T_LOADC, v) : v \in MemOperands }
        \cup { Line2(T_LOADV, v) : v \in VarOperands }
        \cup { Line2(T_STOREV, v) : v \in VarOperands }
        \cup { T_LOAD, T_STORE }

\* SpecJmpi: an address, then an indexed jump
JmpiLines ==
    { Line2(T_LOADC, <<"-", "2">>), Line2(T_LOADC, <<"0">>),
      Line2(T_LOADC, <<"1">>), Line2(T_JMPI, <<"1">>), Line2(T_JMPI, <<"5">>),
      Line2(T_JMPI, <<"-", "1">>), T_NOP }

\* SpecFault: programs that reach each kind of run-time fault, with output
FaultLines ==
    { LabelA, Line2(T_JMP, NameA), Line2(T_JMP, NameB),
      Line2(T_LOADC, <<"0">>), Line2(T_LOADC, <<"1">>),
      Line2(T_LOADC, <<"-", "2">>), T_ADD, T_DIV, T_LOAD,
      Line2(T_PRINT, <<"x">>) }

\* SpecOps: constants of both signs and zero, every binary instruction, NEG
OpsOperands == { <<"-", "7">>, <<"0">>, <<"3">> }
OpsLines ==
    { Line2(T_LOADC, v) : v \in OpsOperands }
        \cup { T_ADD, T_SUB, T_MUL, T_DIV, T_MOD, T_AND, T_OR, T_NEG }

\* SpecPop: every instruction that pops, after no, one or two pushes
PopLines ==
    { LabelA, Line2(T_LOADC, <<"0">>), Line2(T_LOADC, <<"1">>),
      T_ADD, T_SUB, T_MUL, T_DIV, T_MOD, T_AND, T_OR, T_STORE,
      Line2(T_JMPZ, NameA), Line2(T_JMPI, <<"1">>) }

LowerNop == <<"n", "o", "p">>

\* SpecParser: every kind of line parse_line tells apart.  DUP is left to
\* the parser: Vm::execute has no arm for it.
ParserLines ==
    Lines \cup ArithLines
        \cup { <<>>, <<SPACE>>, T_DUP, T_LOADC, T_PRINT, T_JMP, T_JMPZ, NameA,
               <<"T", "E", "S", "T">>, <<"a", COLON, COLON>>, <<"b", COLON>>,
               T_SUB, T_AND, T_OR, T_NEG, T_LOAD, T_STORE,
               Line2(T_LOADV, <<"1">>), Line2(T_STOREV, <<"1">>),
               Line2(T_JMPI, <<"+", "5">>), Line2(T_JMPI, <<"-">>),
               Line2(T_LOADV, <<>>), Line2(T_STOREV, <<"1", "x">>),
               LowerNop, Line2(<<"l", "o", "a", "d", "c">>, <<"1">>) }

Next ==
    \/ \E ln \in Lines : ReadLine(ln, MaxLines)
    \/ StartRun
    \/ Execute
    \/ Break

Spec == Init /\ [][Next]_vars

NextArith ==
    \/ \E ln \in ArithLines : ReadLine(ln, MaxArithLines)
    \/ StartRun
    \/ Execute
    \/ Break

SpecArith == Init /\ [][NextArith]_vars

NextPush ==
    \/ \E ln \in PushLines : ReadLine(ln, MaxPushLines)
    \/ StartRun
    \/ Execute
    \/ Break

SpecPush == Init /\ [][NextPush]_vars

NextMem ==
    \/ \E ln \in MemLines : ReadLine(ln, MaxMemLines)
    \/ StartRun
    \/ Execute
    \/ Break

SpecMem == Init /\ [][NextMem]_vars

NextJmpi ==
    \/ \E ln \in JmpiLines : ReadLine(ln, MaxLines)
    \/ StartRun
    \/ Execute
    \/ Break

SpecJmpi == Init /\ [][NextJmpi]_vars

NextFault ==
    \/ \E ln \in FaultLines : ReadLine(ln, MaxLines)
    \/ StartRun
    \/ Execute
    \/ Break

SpecFault == Init /\ [][NextFault]_vars

NextOps ==
    \/ \E ln \in OpsLines : ReadLine(ln, MaxArithLines)
    \/ StartRun
    \/ Execute
    \/ Break

SpecOps == Init /\ [][NextOps]_vars

NextPop ==
    \/ \E ln \in PopLines : ReadLine(ln, MaxArithLines)
    \/ StartRun
    \/ Execute
    \/ Break

SpecPop == Init /\ [][NextPop]_vars

\* the loop of Vm::run keeps iterating: each iteration either breaks or
\* executes the instruction at pc
SpecPopFair == SpecPop /\ WF_vars(Execute) /\ WF_vars(Break)

NextParser == \E ln \in ParserLines : CallParseLine(ln)

SpecParser == Init /\ [][NextParser]_vars

(***************************************************************************)
(* Claims.                                                                 *)
(***************************************************************************)
Terminal == status \in {"completed", "halted", "faulted"}
ArithOps == {"ADD", "SUB", "MUL", "DIV", "MOD"}

\* the program is LoadConst(b); LoadConst(a); OP with OP arithmetic, and the
\* divisor b is not zero when OP divides
ArithProgram ==
    /\ Len(instructions) = 3
    /\ instructions[1].op = "LOADC"
    /\ instructions[2].op = "LOADC"
    /\ instructions[3].op \in ArithOps
    /\ instructions[3].op \in {"DIV", "MOD"} => instructions[1].val # 0

\* q is a / b truncated toward zero, r the matching remainder: a = q*b + r
\* with |r| < |b| and r zero or of the sign of a
IsTruncDivRem(a, b, q, r) ==
    /\ a = q * b + r
    /\ Abs(r) < Abs(b)
    /\ r = 0 \/ (r < 0) = (a < 0)

ArithResult(a, b, o, top) ==
    CASE o = "ADD" -> top = a + b
      [] o = "SUB" -> top = a - b
      [] o = "MUL" -> top = a * b
      [] o = "DIV" -> \E r \in (0 - Abs(b))..Abs(b) : IsTruncDivRem(a, b, top, r)
      [] o = "MOD" -> \E q \in (0 - Abs(a))..Abs(a) : IsTruncDivRem(a, b, q, top)

\* C1: the run of LoadConst(b); LoadConst(a); OP ends completed, never
\* faulted, with the top of the stack equal to a+b, a-b, a*b, a/b truncated
\* toward zero, or the matching remainder a%b: the value pushed last is the
\* left operand.
C1_ArithTopIsLeftOperand ==
    (ArithProgram /\ Terminal) =>
        /\ status = "completed"
        /\ ArithResult(instructions[2].val, instructions[1].val,
                       instructions[3].op, stack[sp])

\* the run of LoadConst(2); LoadConst(-7); Div has completed with -3 on top:
\* the operands differ, have opposite signs and leave a remainder
C1_Witness ==
    /\ ArithProgram
    /\ status = "completed"
    /\ instructions[3].op = "DIV"
    /\ instructions[2].val = -7
    /\ instructions[1].val = 2
    /\ stack[sp] = -3

\* the engine is about to fetch an instruction
AtInstr == status = "running" /\ pc < Len(instructions)

\* the engine is about to execute Jump(label), or JumpIfZero(label) with a
\* zero on top, and the symbol table resolves the label
TakenJump ==
    /\ AtInstr
    /\ \/ Fetch(pc).op = "JMP"
       \/ Fetch(pc).op = "JMPZ" /\ stack[sp] = 0
    /\ Fetch(pc).str \in DOMAIN sym_tab

\* C2: after a taken jump whose label resolves to address t the next
\* instruction fetched is program[t]: pc is t, without the blanket pc += 1.
C2_JumpLandsOnTarget ==
    [][(TakenJump /\ status' = "running") => pc' = sym_tab[Fetch(pc).str]]_vars

\* the program declares label l at instruction index i, and nowhere else
DeclaredAt(l, i) ==
    /\ i \in 0..(Len(instructions) - 1)
    /\ \A j \in 0..(Len(instructions) - 1) :
          (Fetch(j).op = "LABEL" /\ Fetch(j).str = l) <=> j = i

\* C3: parser and engine together: a taken jump to a label declared at
\* instruction index i makes program[i+1], the first instruction after the
\* declaration, the next one executed.
C3_JumpLandsAfterLabel ==
    [][(TakenJump /\ status' = "running") =>
          \A i \in 0..(Len(instructions) - 1) :
              DeclaredAt(Fetch(pc).str, i) => pc' = i + 1]_vars

Mnemonics ==
    { T_PRINT, T_HALT, T_NOP, T_ADD, T_SUB, T_MUL, T_DIV, T_MOD, T_AND, T_OR,
      T_NEG, T_LOAD, T_STORE, T_LOADV, T_STOREV, T_JMP, T_JMPZ, T_LOADC,
      T_JMPI, T_DUP }

\* ln is a well-formed declaration of the label `name`
Declares(ln, name) ==
    LET t == Split(ln)[1]
    IN  /\ t \notin Mnemonics
        /\ Len(t) > 0
        /\ t[Len(t)] = COLON
        /\ StripLast(t) = name

\* C4: a second declaration of a label name makes parse_line return a
\* LabelError, so the program fails to load, and the symbol-table entry of
\* the first declaration is not overwritten.
C4_DuplicateLabelRejected ==
    [][\A name \in DOMAIN sym_tab :
          (calls' = calls + 1 /\ Declares(input', name)) =>
              /\ result'.tag = "Err"
              /\ result'.err = "Label"
              /\ sym_tab' = sym_tab
              /\ status' = "load_failed"]_vars

\* C5: in a program of LoadConst only the first 50 pushes succeed and the
\* 51st faults, with the stack overflow raised by increment_sp.
C5_FiftyFirstPushOverflows ==
    status = "faulted" =>
        /\ steps = STACK_SIZE + 1
        /\ fault = "tyr: Stack overflow"

\* C6: in every state of the engine that is not faulted 0 <= sp <= capacity.
C6_SpInRange == status # "faulted" => (0 <= sp /\ sp <= STACK_SIZE)

\* a run has pushed until the stack was full and the next push faulted
C6_Witness ==
    /\ status = "faulted"
    /\ sp = STACK_SIZE
    /\ steps > STACK_SIZE

\* the engine is about to execute JumpIfZero with a non-zero top of stack
FallThroughJmpz == AtInstr /\ Fetch(pc).op = "JMPZ" /\ stack[sp] # 0

FellThrough ==
    /\ status' = "running"
    /\ sp' = sp - 1
    /\ stack' = stack
    /\ pc' = pc + 1

\* C7 as stated: JumpIfZero with a non-zero top falls through (sp one less,
\* no slot modified, pc + 1 next) without a fault, whatever the label.
C7_FallThroughNeverFaults == [][FallThroughJmpz => FellThrough]_vars

\* C7 amended: JumpIfZero with a non-zero top and sp >= 1 falls through (sp
\* one less, no slot modified, pc + 1 next) without looking the label up;
\* with sp = 0 it faults with a stack underflow.
C7_FallThroughAboveBase ==
    [][FallThroughJmpz =>
          IF sp >= 1 THEN FellThrough
          ELSE status' = "faulted" /\ fault' = "tyr: Stack underflow"]_vars

\* JumpIfZero of a label that was never declared has fallen through: the
\* symbol table is empty, so the engine came to pc from pc - 1
C7_Witness ==
    /\ status = "running"
    /\ pc >= 1
    /\ pc <= Len(instructions)
    /\ Fetch(pc - 1).op = "JMPZ"
    /\ DOMAIN sym_tab = {}
    /\ sp >= 1

\* C8: JumpIfZero(label) with a zero on top leaves the machine as
\* Jump(label) would: the same pc, and sp and every slot unchanged (the
\* zero is not popped).  Stated for a pushed zero (sp >= 1).
C8_ZeroJmpzIsJump ==
    [][(AtInstr /\ Fetch(pc).op = "JMPZ" /\ stack[sp] = 0 /\ sp >= 1) =>
          LET j == RunInstr(Machine, OpStr("JMP", Fetch(pc).str), sym_tab)
          IN  /\ pc' = j.pc
              /\ sp' = j.sp /\ sp' = sp
              /\ stack' = j.stack /\ stack' = stack
              /\ fault' = j.fault]_vars

\* C9: after k calls of parse_line that returned, Ok or Err, the line
\* counter has advanced by exactly k.
C9_LineCountsCalls == result.tag # "panic" => line = 1 + calls

\* C10: parse_line on the empty line returns Ok(Nop) and leaves the symbol
\* table unchanged.
C10_EmptyLineIsNop ==
    [][(calls' = calls + 1 /\ input' = <<>>) =>
          (result' = Ok(Op0("NOP")) /\ sym_tab' = sym_tab)]_vars

\* C11: parse_line never panics: whatever the line, it returns Ok or Err.
C11_ParseLineNeverPanics == result.tag # "panic"

\* a call of parse_line has just been made on a line whose first token t is
\* not empty, is no mnemonic and does not end with a colon
NonMnemonicWithoutColon ==
    /\ calls' = calls + 1
    /\ LET t == Split(input')[1]
       IN  t \notin Mnemonics /\ Len(t) > 0 /\ t[Len(t)] # COLON

C13_NewLabelInserted ==
    [][\A ln \in ParserLines :
          LET name == StripLast(Split(ln)[1])
          IN  (/\ calls' = calls + 1
               /\ input' = ln
               /\ Declares(ln, name)
               /\ name \notin DOMAIN sym_tab) =>
                  /\ result' = Ok(OpLabel(name, line))
                  /\ DOMAIN sym_tab' = DOMAIN sym_tab \cup {name}
                  /\ sym_tab'[name] = line
                  /\ \A k \in DOMAIN sym_tab : sym_tab'[k] = sym_tab[k]]_vars

\* the operand tokens of ParserLines that are signed 64-bit integers, with
\* their values, and those that are not
ValidOperands ==
    { [tok |-> <<"0">>, val |-> 0], [tok |-> <<"1">>, val |-> 1],
      [tok |-> <<"2">>, val |-> 2], [tok |-> <<"3">>, val |-> 3],
      [tok |-> <<"7">>, val |-> 7], [tok |-> <<"-", "1">>, val |-> -1],
      [tok |-> <<"-", "2">>, val |-> -2], [tok |-> <<"-", "7">>, val |-> -7],
      [tok |-> <<"+", "5">>, val |-> 5] }
InvalidOperands == { <<"h">>, <<"-">>, <<>>, <<"1", "x">> }

IntMnemonic(t) ==
    CASE t = T_LOADC -> "LOADC"
      [] t = T_LOADV -> "LOADV"
      [] t = T_STOREV -> "STOREV"
      [] t = T_JMPI -> "JMPI"
      [] OTHER -> "none"

C15_LoadFailFast ==
    /\ [](result.tag = "Err" =>
             /\ status = "load_failed"
             /\ steps = 0
             /\ out = <<>>
             /\ calls = Len(instructions) + 1)
    /\ [][result.tag # "Err"]_vars

\* a line was rejected after an instruction had been accepted
C15_Witness ==
    /\ result.tag = "Err"
    /\ status = "load_failed"
    /\ Len(instructions) >= 1

\* this step is one iteration of Vm::run on an instruction named opname
Executes(opname) ==
    /\ status = "running"
    /\ steps' = steps + 1
    /\ Fetch(pc).op = opname

\* the instruction executed last, in a program that has no jump
LastExecuted == IF steps >= 1 /\ pc >= 1 THEN Fetch(pc - 1).op ELSE "none"

\* C16: LoadIndirect with top-of-stack value a faults when a is negative or
\* a >= capacity; otherwise stack[sp] becomes the old stack[a], and sp and
\* every other slot are unchanged.
C16_LoadIndirect ==
    [][Executes("LOAD") =>
          LET a == stack[sp]
          IN  IF a < 0 \/ a >= STACK_SIZE
              THEN status' = "faulted"
              ELSE /\ status' = "running"
                   /\ sp' = sp
                   /\ stack'[sp] = stack[a]
                   /\ \A i \in Slots \ {sp} : stack'[i] = stack[i]]_vars

\* LOADC 7; LOADC 1; LOAD has replaced the address 1 by the 7 of slot 1
C16_Witness ==
    /\ status = "running"
    /\ LastExecuted = "LOAD"
    /\ sp = 2
    /\ stack[1] = 7
    /\ stack[2] = 7

\* C17: StoreIndirect with sp >= 1 and top-of-stack value a faults with no
\* slot modified when a is negative or a >= capacity; otherwise stack[a]
\* becomes the old stack[sp-1], sp decreases by exactly 1, no other slot
\* changes, and the stored value is still the new top.
C17_StoreIndirect ==
    [][(Executes("STORE") /\ sp >= 1) =>
          LET a == stack[sp]
          IN  IF a < 0 \/ a >= STACK_SIZE
              THEN status' = "faulted" /\ stack' = stack
              ELSE /\ status' = "running"
                   /\ sp' = sp - 1
                   /\ stack'[a] = stack[sp - 1]
                   /\ \A i \in Slots \ {a} : stack'[i] = stack[i]
                   /\ stack'[sp'] = stack[sp - 1]]_vars

\* LOADC 7; LOADC 0; STORE has written the 7 into slot 0 and popped the
\* address
C17_Witness ==
    /\ status = "running"
    /\ LastExecuted = "STORE"
    /\ sp = 1
    /\ stack[0] = 7
    /\ stack[1] = 7

\* the machine after LoadConst(v) and then the instruction named opname
ConstThen(m, v, opname) ==
    LET m1 == RunInstr(m, OpInt("LOADC", v), sym_tab)
    IN  IF Live(m1) THEN RunInstr(m1, Op0(opname), sym_tab) ELSE m1

\* C18: LoadVar(v) leaves the sp and the stack, and faults in the cases,
\* of LoadConst(v) followed by LoadIndirect; StoreVar(v) those of
\* LoadConst(v) followed by StoreIndirect.
C18_VarIsSugar ==
    [][\A pair \in {<<"LOADV", "LOAD">>, <<"STOREV", "STORE">>} :
          Executes(pair[1]) =>
              LET m == ConstThen(Machine, Fetch(pc).val, pair[2])
              IN  /\ sp' = m.sp
                  /\ stack' = m.stack
                  /\ (status' = "faulted") = (m.fault # "none")
                  /\ fault' = m.fault]_vars

\* LOADC 7; STOREV 0 has written the 7 into slot 0
C18_Witness ==
    /\ status = "running"
    /\ LastExecuted = "STOREV"
    /\ sp = 1
    /\ stack[0] = 7

IllegalJump == "tyr: Attempted to jump to illegal location"

\* the engine is about to execute Jump(label), or JumpIfZero(label) with a
\* zero on top, and the symbol table has no entry for the label
UnresolvedJump ==
    /\ AtInstr
    /\ \/ Fetch(pc).op = "JMP"
       \/ Fetch(pc).op = "JMPZ" /\ stack[sp] = 0
    /\ Fetch(pc).str \notin DOMAIN sym_tab

\* C19: a Jump, or a JumpIfZero with a zero on top, whose label has no
\* entry in the symbol table is a fatal fault (illegal jump target): pc, sp
\* and the stack keep their values, and nothing executes after the fault.
C19_UnknownLabelFaults ==
    /\ [][UnresolvedJump =>
             /\ status' = "faulted"
             /\ fault' = IllegalJump
             /\ pc' = pc
             /\ sp' = sp
             /\ stack' = stack]_vars
    /\ [][status # "faulted"]_vars

\* the run has stopped on a JumpIfZero to a label nobody declared
C19_Witness ==
    /\ status = "faulted"
    /\ fault = IllegalJump
    /\ Fetch(pc).op = "JMPZ"
    /\ Fetch(pc).str \notin DOMAIN sym_tab

\* C20: JumpIndexed(offset) with top-of-stack value a (and an address to
\* pop, sp >= 1): a negative a faults whatever the offset; otherwise, when
\* a + offset is an address, the address is popped and the next instruction
\* fetched is program[a + offset].
C20_JumpIndexed ==
    [][(Executes("JMPI") /\ sp >= 1) =>
          LET a == stack[sp]
              offset == Fetch(pc).val
          IN  /\ a < 0 => status' = "faulted"
              /\ (a >= 0 /\ a + offset >= 0) =>
                    /\ status' = "running"
                    /\ sp' = sp - 1
                    /\ pc' = a + offset]_vars

\* C21: a run-time fault ends the run: the step in which an instruction
\* panics leaves the run faulted, from a faulted run no instruction executes
\* and no output is added, and a run that ended with success never faulted.
C21_FaultIsFinal ==
    /\ [][(status = "running" /\ fault' # "none") => status' = "faulted"]_vars
    /\ [][status = "faulted" => UNCHANGED <<steps, out, pc, status>>]_vars
    /\ [](status \in {"completed", "halted"} => fault = "none")

\* LOADC 1; DIV; PRINT x: the division by the zero of slot 0 has ended the
\* run before the Print
C21_Witness ==
    /\ status = "faulted"
    /\ fault = "attempt to divide by zero"
    /\ pc + 1 < Len(instructions)
    /\ Fetch(pc + 1).op = "PRINT"
    /\ out = <<>>

\* C22: executing Halt ends the run at once with success: pc, sp, the stack
\* and the output stay as they were, and from a halted run nothing executes,
\* whatever follows the Halt in the program.
C22_HaltIsFinal ==
    /\ [][(AtInstr /\ Fetch(pc).op = "HALT") =>
             /\ status' = "halted"
             /\ fault' = "none"
             /\ UNCHANGED <<pc, sp, stack, out>>]_vars
    /\ [][status = "halted" => UNCHANGED <<steps, out, pc, sp, stack, status>>]_vars

\* LOADC 1; HALT; PRINT x: halted with a value on the stack and the Print
\* not executed
C22_Witness ==
    /\ status = "halted"
    /\ sp = 1
    /\ pc + 1 < Len(instructions)
    /\ Fetch(pc + 1).op = "PRINT"
    /\ out = <<>>

\* C23: Div or Mod executed when the divisor, the value below the top, is 0
\* is a run-time fault: the run stops, and no slot and not sp is written;
\* with sp = 1 the divisor is the base value of slot 0.
C23_DivisionByZeroFaults ==
    [][((Executes("DIV") \/ Executes("MOD")) /\ sp >= 1 /\ stack[sp - 1] = 0) =>
          /\ status' = "faulted"
          /\ fault' \in { "attempt to divide by zero",
                          "attempt to calculate the remainder with a divisor of zero" }
          /\ stack' = stack
          /\ sp' = sp]_vars

\* LOADC 7; MOD: the remainder by the zero of slot 0 has faulted
C23_Witness ==
    /\ status = "faulted"
    /\ Fetch(pc).op = "MOD"
    /\ sp = 1
    /\ stack[1] = 7
    /\ stack[0] = 0

\* LOADC 0; LOADC 7; DIV: the division by a pushed zero has faulted
C23_WitnessPushedZero ==
    /\ status = "faulted"
    /\ Fetch(pc).op = "DIV"
    /\ sp = 2
    /\ stack[1] = 0

\* C24: Neg replaces the top of the stack by its negation and leaves sp and
\* every other slot unchanged; after LoadConst(v); Neg the top is -v at
\* depth 1.
C24_NegNegatesTop ==
    /\ [][Executes("NEG") =>
             /\ status' = "running"
             /\ sp' = sp
             /\ stack'[sp] = 0 - stack[sp]
             /\ \A i \in Slots \ {sp} : stack'[i] = stack[i]]_vars
    /\ []((/\ Len(instructions) >= 2
           /\ instructions[1].op = "LOADC"
           /\ instructions[2].op = "NEG"
           /\ steps = 2) =>
              /\ sp = 1
              /\ stack[1] = 0 - instructions[1].val)

\* LOADC 3; NEG has left -3 on top at depth 1
C24_Witness ==
    /\ Len(instructions) >= 2
    /\ instructions[1] = OpInt("LOADC", 3)
    /\ instructions[2].op = "NEG"
    /\ steps = 2
    /\ sp = 1
    /\ stack[1] = -3

\* C25: LoadIndirect whose address is a valid slot index above the stack
\* pointer, a slot that holds no live operand, leaves 0 on top, whatever
\* instructions were executed before.
C25_EmptySlotLoadsZero ==
    [][(Executes("LOAD") /\ stack[sp] \in Slots /\ stack[sp] > sp) =>
          /\ status' = "running"
          /\ stack'[sp'] = 0]_vars

\* C26: LoadConst(v) faults exactly when sp + 1 equals the capacity;
\* otherwise sp is incremented, v is written into the slot at the new sp and
\* no other slot is modified.
C26_LoadConst ==
    [][Executes("LOADC") =>
          IF sp + 1 = STACK_SIZE
          THEN status' = "faulted"
          ELSE /\ status' = "running"
               /\ sp' = sp + 1
               /\ stack'[sp'] = Fetch(pc).val
               /\ \A i \in Slots \ {sp'} : stack'[i] = stack[i]]_vars

\* a LoadConst executed with sp = 49 has faulted, after pushes that succeeded
C26_Witness ==
    /\ status = "faulted"
    /\ fault = "index out of bounds"
    /\ Fetch(pc).op = "LOADC"
    /\ stack[STACK_SIZE - 1] = 1
    /\ steps >= STACK_SIZE

BinaryOps == ArithOps \cup {"AND", "OR"}

\* bit k of the two's complement representation of x
Bit(x, k) == (x \div (2 ^ k)) % 2

\* r has, in every bit including the sign, the and / the or of the bits of
\* a and b
IsBitAnd(a, b, r) ==
    /\ r \in (0 - 2 ^ BitWidth)..(2 ^ BitWidth - 1)
    /\ \A k \in 0..BitWidth : Bit(r, k) = Bit(a, k) * Bit(b, k)
IsBitOr(a, b, r) ==
    /\ r \in (0 - 2 ^ BitWidth)..(2 ^ BitWidth - 1)
    /\ \A k \in 0..BitWidth :
          Bit(r, k) = IF Bit(a, k) = 1 \/ Bit(b, k) = 1 THEN 1 ELSE 0

BinaryResult(a, b, o, r) ==
    CASE o \in ArithOps -> ArithResult(a, b, o, r)
      [] o = "AND" -> IsBitAnd(a, b, r)
      [] o = "OR" -> IsBitOr(a, b, r)

\* this step executes a binary instruction with an operand above slot 0
BinaryStep ==
    /\ status = "running"
    /\ steps' = steps + 1
    /\ Fetch(pc).op \in BinaryOps
    /\ sp >= 1

\* stack[sp] <op> stack[sp-1] is written into slot sp-1, sp decreases by 1,
\* no other slot changes, and the run goes on
BinaryEffect ==
    /\ status' = "running"
    /\ sp' = sp - 1
    /\ BinaryResult(stack[sp], stack[sp - 1], Fetch(pc).op, stack'[sp - 1])
    /\ \A i \in Slots \ {sp - 1} : stack'[i] = stack[i]

ZeroDivisor == Fetch(pc).op \in {"DIV", "MOD"} /\ stack[sp - 1] = 0

C27_WitnessAnd ==
    /\ status = "running"
    /\ steps = 3
    /\ LastExecuted = "AND"
    /\ sp = 1
    /\ stack[1] = 1
    /\ stack[2] = -7

PoppingOps == BinaryOps \cup {"STORE", "JMPZ", "JMPI"}

\* C28: an instruction that pops, executed with sp = 0, faults and leaves
\* sp at 0; sp is never below 0 in any state.
C28_PopAtBaseFaults ==
    /\ [](sp >= 0)
    /\ [][(AtInstr /\ Fetch(pc).op \in PoppingOps /\ sp = 0) =>
             /\ status' = "faulted"
             /\ sp' = 0]_vars

\* JMPI 1 as the first instruction: the jump address 0 + 1 was accepted,
\* and the pop at sp = 0 has faulted
C28_Witness ==
    /\ status = "faulted"
    /\ fault = "tyr: Stack underflow"
    /\ steps = 1
    /\ instructions[1].op = "JMPI"
    /\ sp = 0

\* the instruction about to execute may set pc itself, or ends the run
SetsPc ==
    \/ Fetch(pc).op \in {"JMP", "JMPI", "HALT"}
    \/ Fetch(pc).op = "JMPZ" /\ stack[sp] = 0

\* C29: an executed instruction that is not a Jump, a taken JumpIfZero, a
\* JumpIndexed or a Halt and does not fault advances pc by exactly 1; Print,
\* Label and Nop never fault and leave sp and every stack slot unchanged;
\* no instruction modifies the program or the symbol table.
C29_PcAdvancesByOne ==
    [][AtInstr =>
          /\ (~SetsPc /\ status' = "running") => pc' = pc + 1
          /\ Fetch(pc).op \in {"PRINT", "LABEL", "NOP"} =>
                /\ status' = "running"
                /\ pc' = pc + 1
                /\ sp' = sp
                /\ stack' = stack
          /\ instructions' = instructions
          /\ sym_tab' = sym_tab]_vars

\* LOADC 1; PRINT x: the Print has written its line and moved pc only
C29_Witness ==
    /\ status = "running"
    /\ steps = 2
    /\ instructions[2].op = "PRINT"
    /\ pc = 2
    /\ sp = 1
    /\ stack[1] = 1
    /\ Len(out) = 1

\* the program contains no Jump, JumpIfZero, JumpIndexed or Halt
JumpFree ==
    \A j \in 1..Len(instructions) :
        instructions[j].op \notin {"JMP", "JMPZ", "JMPI", "HALT"}

\* C30: the run of a program of n instructions without Jump, JumpIfZero,
\* JumpIndexed and Halt executes the instructions once each in address
\* order (the k-th step executes program[k-1]), ends faulted or completed,
\* is completed after exactly n steps with pc = n, and completing leaves sp
\* and the stack as the last instruction produced them.
C30_JumpFreeTerminates ==
    /\ []((JumpFree /\ status = "running") =>
             pc = steps /\ steps <= Len(instructions))
    /\ []((JumpFree /\ status = "completed") =>
             pc = Len(instructions) /\ steps = Len(instructions))
    /\ [][(status = "running" /\ status' = "completed") =>
             sp' = sp /\ stack' = stack]_vars
    /\ ((JumpFree /\ status = "running") ~>
             (status \in {"completed", "faulted"}))

\* LOADC 1; LOADC 1; ADD has completed after 3 steps with the sum on top
C30_Witness ==
    /\ JumpFree
    /\ status = "completed"
    /\ Len(instructions) = 3
    /\ steps = 3
    /\ sp = 1
    /\ stack[1] = 2

\* the instruction about to execute calls loadc, the caller of increment_sp
Pushes == AtInstr /\ Fetch(pc).op \in {"LOADC", "LOADV", "STOREV"}

\* C31: in every state of a run that has not faulted sp <= capacity - 1, so
\* increment_sp is never entered with sp = capacity and its overflow panic
\* never happens; a push onto the full stack (sp = capacity - 1) faults on
\* the write to slot index capacity, after sp was incremented.
C31_SpBelowCapacity ==
    /\ [](status # "faulted" => sp <= STACK_SIZE - 1)
    /\ [](Pushes => sp # STACK_SIZE)
    /\ [](fault # "tyr: Stack overflow")
    /\ [][(Pushes /\ sp = STACK_SIZE - 1) =>
             /\ status' = "faulted"
             /\ fault' = "index out of bounds"
             /\ sp' = STACK_SIZE
             /\ stack' = stack]_vars

\* a push onto the full stack has ended the run on the index check, with sp
\* at capacity
C31_Witness ==
    /\ fault = "index out of bounds"
    /\ status = "faulted"
    /\ sp = STACK_SIZE
    /\ pc < Len(instructions)
    /\ Fetch(pc).op = "LOADC"

====
